---- MODULE Spec2Model ----
(***************************************************************************)
(* Model of the picoPD firmware (src/main.rs) and of its AP33772 driver    *)
(* (src/ap33772/mod.rs, src/ap33772/regs.rs).                              *)
(*                                                                         *)
(* The firmware runs on one cooperative executor: after the boot sequence  *)
(* three futures (monitor, control, blink) are joined and each of them     *)
(* runs without interruption from one await to the next.  A 32-bit         *)
(* register word is kept as a pair <<hi, lo>> of 16-bit halves so that     *)
(* every bit field is computed with the width it has in the source.        *)
(***************************************************************************)
EXTENDS Integers, Sequences, FiniteSets, TLC

(***************************************************************************)
(* Bounds of the model.                                                    *)
(***************************************************************************)
\* how many of the sample status bytes the chip may report
NumStatus == 12
\* how many of the sample PDO blocks the chip may report
NumBlocks == 3
\* how many sample values each bit range of a decoded word takes
NumFieldValues == 4
\* how many of the sample offers a source may make
NumOfferWords == 6
\* how many of the seven slots of a table hold an offer
NumOffers == 3

(***************************************************************************)
(* Bit fields of 8-bit and 32-bit registers.                               *)
(***************************************************************************)
Pow2(n) == 2 ^ n

\* bit n of a byte
Bit(b, n) == ((b \div Pow2(n)) % 2) = 1

\* bits [msb:lsb] of the word <<hi, lo>>, for fields of at most 15 bits
Field(w, msb, lsb) ==
    LET hi == w[1]
        lo == w[2]
        width == msb - lsb + 1
    IN  IF msb <= 15 THEN (lo \div Pow2(lsb)) % Pow2(width)
        ELSE IF lsb >= 16 THEN (hi \div Pow2(lsb - 16)) % Pow2(width)
        ELSE (lo \div Pow2(lsb)) + (hi % Pow2(msb - 15)) * Pow2(16 - lsb)

\* the word w with bits [msb:lsb] replaced by the low bits of value
\* (the bitfield setter masks the value to the width of the field)
SetField(w, msb, lsb, value) ==
    LET width == msb - lsb + 1
        v == value % Pow2(width)
        hi == w[1]
        lo == w[2]
    IN  IF msb <= 15
        THEN <<hi, lo - ((lo \div Pow2(lsb)) % Pow2(width)) * Pow2(lsb)
                      + v * Pow2(lsb)>>
        ELSE IF lsb >= 16
        THEN <<hi - ((hi \div Pow2(lsb - 16)) % Pow2(width)) * Pow2(lsb - 16)
                  + v * Pow2(lsb - 16), lo>>
        ELSE <<hi - (hi % Pow2(msb - 15)) + (v \div Pow2(16 - lsb)),
               (lo % Pow2(lsb)) + (v % Pow2(16 - lsb)) * Pow2(lsb)>>

ZeroWord == <<0, 0>>

(***************************************************************************)
(* regs.rs: Status                                                         *)
(***************************************************************************)
derating(s) == Bit(s, 7)
otp(s) == Bit(s, 6)
ocp(s) == Bit(s, 5)
ovp(s) == Bit(s, 4)
newpdos(s) == Bit(s, 2)
success(s) == Bit(s, 1)
ready(s) == Bit(s, 0)

(***************************************************************************)
(* regs.rs: FixedPDO, APDO (raw field accessors) and PDO (scaled values)   *)
(***************************************************************************)
FixedPDO_v(w) == Field(w, 19, 10)
FixedPDO_imax(w) == Field(w, 9, 0)
APDO_vmax(w) == Field(w, 24, 17)
APDO_vmin(w) == Field(w, 15, 8)
APDO_imax(w) == Field(w, 6, 0)

NoPDO == [kind |-> "None", w |-> ZeroWord]
Fixed(w) == [kind |-> "Fixed", w |-> w]
Programmable(w) == [kind |-> "Programmable", w |-> w]

vmin(pdo) ==
    IF pdo.kind = "Fixed" THEN FixedPDO_v(pdo.w) * 50
    ELSE APDO_vmin(pdo.w) * 100

vmax(pdo) ==
    IF pdo.kind = "Fixed" THEN FixedPDO_v(pdo.w) * 50
    ELSE APDO_vmax(pdo.w) * 100

imax(pdo) ==
    IF pdo.kind = "Fixed" THEN FixedPDO_imax(pdo.w) * 10
    ELSE APDO_imax(pdo.w) * 50

vcomp(pdo, v_lo, v_hi) == (v_lo <= vmax(pdo)) /\ (vmin(pdo) <= v_hi)

icomp(pdo, i_lo) == i_lo <= imax(pdo)

(***************************************************************************)
(* What the chip may answer: sample status bytes and sample PDO blocks.    *)
(***************************************************************************)
\* the word of a fixed offer of v50 * 50 mV and i10 * 10 mA
FixedWord(v50, i10) == SetField(SetField(ZeroWord, 19, 10, v50), 9, 0, i10)

\* the word of a programmable offer (type nibble 0xC)
ApdoWord(vmax100, vmin100, i50) ==
    SetField(SetField(SetField(<<49152, 0>>, 24, 17, vmax100),
                      15, 8, vmin100), 6, 0, i50)

\* a word of a type the driver does not know (bits 31:30 = 10)
UnknownWord == <<32768, 1>>

StatusSamples ==
    << 0, 1, 3, 19, 7, 5, 35, 67, 23, 16, 131, 4, 2, 32, 64, 147 >>

StatusBytes ==
    { StatusSamples[k] : k \in { j \in 1..Len(StatusSamples) : j <= NumStatus } }

BlockSamples ==
    << << ZeroWord, ZeroWord, ZeroWord, ZeroWord, ZeroWord, ZeroWord, ZeroWord >>,
       << FixedWord(100, 300), FixedWord(180, 300), ApdoWord(110, 33, 100),
          ZeroWord, ZeroWord, ZeroWord, ZeroWord >>,
       << FixedWord(100, 300), FixedWord(100, 200), UnknownWord,
          FixedWord(400, 500), ZeroWord, ZeroWord, ZeroWord >>,
       << FixedWord(100, 50), ApdoWord(59, 33, 60), ApdoWord(110, 33, 100),
          ApdoWord(33, 110, 60), FixedWord(100, 200), FixedWord(100, 300),
          UnknownWord >> >>

Blocks ==
    { BlockSamples[k] : k \in { j \in 1..Len(BlockSamples) : j <= NumBlocks } }

(***************************************************************************)
(* Bus transactions as the driver issues them: a read of a register, or a  *)
(* write of a payload to a register.                                       *)
(***************************************************************************)
RD(reg) == [wr |-> FALSE, reg |-> reg, data |-> <<>>]
WR(reg, data) == [wr |-> TRUE, reg |-> reg, data |-> data]

\* Result<Status, I2C::Error>, and the absence of a result
Err == [kind |-> "Err", status |-> 0]
Ok(s) == [kind |-> "Ok", status |-> s]
NoRes == [kind |-> "None", status |-> 0]

(***************************************************************************)
(* mod.rs: the driver.  A driver value is [status, pdos]; every operation  *)
(* yields the new driver value, its result and the transactions issued.    *)
(***************************************************************************)
new == [status |-> 0, pdos |-> [i \in 1..7 |-> NoPDO]]

\* variant: a fixed offer is recognised by the whole type nibble being 0
DecodeSlot_nibble(w) ==
    IF w = ZeroWord THEN NoPDO
    ELSE IF w[1] \div 4096 = 12 THEN Programmable(w)
    ELSE IF w[1] \div 4096 = 0 THEN Fixed(w)
    ELSE NoPDO

\* the classification of one word of the PDO block
DecodeSlot(w) ==
    IF w = ZeroWord THEN NoPDO
    ELSE IF w[1] \div 4096 = 12 THEN Programmable(w)
    ELSE IF w[1] \div 16384 = 0 THEN Fixed(w)
    ELSE NoPDO

\* variant: the decoding loop stops after three of the seven words
read_pdos_partial(drv, bus_ok, blk) ==
    IF bus_ok
    THEN [drv |-> [drv EXCEPT !.pdos =
                      [i \in 1..7 |-> IF i <= 3 THEN DecodeSlot(blk[i]) ELSE @[i]]],
          ok |-> TRUE, tx |-> << RD(0) >>]
    ELSE [drv |-> drv, ok |-> FALSE, tx |-> << RD(0) >>]

\* read_pdos: one read of the 28-byte block at 0x00, then the decoding
read_pdos(drv, bus_ok, blk) ==
    IF bus_ok
    THEN [drv |-> [drv EXCEPT !.pdos = [i \in 1..7 |-> DecodeSlot(blk[i])]],
          ok |-> TRUE, tx |-> << RD(0) >>]
    ELSE [drv |-> drv, ok |-> FALSE, tx |-> << RD(0) >>]

\* variant: the block is read again on newpdos alone
update_newpdos_only(drv, st_ok, s, pd_ok, blk) ==
    IF ~st_ok
    THEN [drv |-> drv, res |-> Err, tx |-> << RD(29) >>]
    ELSE LET d1 == [drv EXCEPT !.status = s]
         IN  IF newpdos(d1.status)
             THEN LET r == read_pdos(d1, pd_ok, blk)
                  IN  [drv |-> r.drv,
                       res |-> IF r.ok THEN Ok(r.drv.status) ELSE Err,
                       tx |-> << RD(29) >> \o r.tx]
             ELSE [drv |-> d1, res |-> Ok(d1.status), tx |-> << RD(29) >>]

\* update: status read, then the PDO block if ready and newpdos
update(drv, st_ok, s, pd_ok, blk) ==
    IF ~st_ok
    THEN [drv |-> drv, res |-> Err, tx |-> << RD(29) >>]
    ELSE LET d1 == [drv EXCEPT !.status = s]
         IN  IF ready(d1.status) /\ newpdos(d1.status)
             THEN LET r == read_pdos(d1, pd_ok, blk)
                  IN  [drv |-> r.drv,
                       res |-> IF r.ok THEN Ok(r.drv.status) ELSE Err,
                       tx |-> << RD(29) >> \o r.tx]
             ELSE [drv |-> d1, res |-> Ok(d1.status), tx |-> << RD(29) >>]

(***************************************************************************)
(* bin/pd.rs: its own copy of the driver.  update() returns Result<(), _>. *)
(***************************************************************************)
OkUnit == [kind |-> "Ok", status |-> 0]

\* pd.rs read_pdos: the same text as the library's
pd_read_pdos(drv, bus_ok, blk) ==
    IF bus_ok
    THEN [drv |-> [drv EXCEPT !.pdos = [i \in 1..7 |-> DecodeSlot(blk[i])]],
          ok |-> TRUE, tx |-> << RD(0) >>]
    ELSE [drv |-> drv, ok |-> FALSE, tx |-> << RD(0) >>]

\* pd.rs update: the result of read_pdos() is dropped
pd_update(drv, st_ok, s, pd_ok, blk) ==
    IF ~st_ok
    THEN [drv |-> drv, res |-> Err, tx |-> << RD(29) >>]
    ELSE LET d1 == [drv EXCEPT !.status = s]
         IN  IF ready(d1.status) /\ newpdos(d1.status)
             THEN LET r == pd_read_pdos(d1, pd_ok, blk)
                  IN  [drv |-> r.drv, res |-> OkUnit, tx |-> << RD(29) >> \o r.tx]
             ELSE [drv |-> d1, res |-> OkUnit, tx |-> << RD(29) >>]

read_temp == RD(34)
read_voltage == RD(32)
read_current == RD(33)

write_tr == WR(16, << 39, 65, 16, 136, 7, 206, 3 >>)
write_irqmask(mask) == WR(30, << mask >>)
\* the threshold in units of 50 mA must fit a byte (try_into().unwrap())
write_ocpthr_fits(thr) == thr \div 50 <= 255
write_ocpthr(thr) == WR(35, << thr \div 50 >>)
write_otpthr(thr) == WR(36, << thr >>)
write_drthr(thr) == WR(37, << thr >>)
write_rdo(word) == WR(48, << word >>)

(***************************************************************************)
(* main.rs: target operating point, profile selection and request.         *)
(***************************************************************************)
v_nom == 3400
v_min == 3300
v_max == 5000
i_nom == 1000
i_min == 1000

Min(a, b) == IF a < b THEN a ELSE b
Max(a, b) == IF a > b THEN a ELSE b

\* ipdo_sel = None
NoSel == -1

\* variant: the current of the offer is not tested
SelectStep_no_icomp(pdos, i, sel) ==
    LET pdo == pdos[i + 1]
    IN  IF pdo.kind = "None" THEN sel
        ELSE IF ~vcomp(pdo, v_min, v_max) THEN sel
        ELSE IF sel = NoSel THEN i
        ELSE LET pdo_old == pdos[sel + 1]
             IN  CASE pdo.kind = "Programmable" /\ pdo_old.kind = "Fixed" -> i
                   [] pdo.kind = "Fixed" /\ pdo_old.kind = "Fixed" ->
                        IF imax(pdo) > FixedPDO_imax(pdo_old.w) THEN i ELSE sel
                   [] pdo.kind = "Programmable" /\ pdo_old.kind = "Programmable" ->
                        IF imax(pdo) > APDO_imax(pdo_old.w) THEN i ELSE sel
                   [] OTHER -> sel

\* variant: a programmable offer does not replace a selected fixed offer
SelectStep_keeps_fixed(pdos, i, sel) ==
    LET pdo == pdos[i + 1]
    IN  IF pdo.kind = "None" THEN sel
        ELSE IF ~(vcomp(pdo, v_min, v_max) /\ icomp(pdo, i_min)) THEN sel
        ELSE IF sel = NoSel THEN i
        ELSE LET pdo_old == pdos[sel + 1]
             IN  CASE pdo.kind = "Fixed" /\ pdo_old.kind = "Fixed" ->
                        IF imax(pdo) > FixedPDO_imax(pdo_old.w) THEN i ELSE sel
                   [] pdo.kind = "Programmable" /\ pdo_old.kind = "Programmable" ->
                        IF imax(pdo) > APDO_imax(pdo_old.w) THEN i ELSE sel
                   [] OTHER -> sel

\* one iteration of the scan: slot i (0-based) against the running choice
SelectStep(pdos, i, sel) ==
    LET pdo == pdos[i + 1]
    IN  IF pdo.kind = "None" THEN sel
        ELSE IF ~(vcomp(pdo, v_min, v_max) /\ icomp(pdo, i_min)) THEN sel
        ELSE IF sel = NoSel THEN i
        ELSE LET pdo_old == pdos[sel + 1]
             IN  CASE pdo.kind = "Programmable" /\ pdo_old.kind = "Fixed" -> i
                   [] pdo.kind = "Fixed" /\ pdo_old.kind = "Fixed" ->
                        \* pdo is the PDO (mA), pdo_old the inner FixedPDO (raw field)
                        IF imax(pdo) > FixedPDO_imax(pdo_old.w) THEN i ELSE sel
                   [] pdo.kind = "Programmable" /\ pdo_old.kind = "Programmable" ->
                        IF imax(pdo) > APDO_imax(pdo_old.w) THEN i ELSE sel
                   [] OTHER -> sel

RECURSIVE SelectFrom(_, _, _)
SelectFrom(pdos, i, sel) ==
    IF i > 6 THEN sel ELSE SelectFrom(pdos, i + 1, SelectStep(pdos, i, sel))

\* the scan over the seven slots: the selected 0-based index, or NoSel
choose_profile(pdos) == SelectFrom(pdos, 0, NoSel)

\* variant: the voltage is clamped to the range of the offer
ARDO_pdo_range(ipdo, pdo) ==
    LET v_set == Max(Min(v_nom, vmax(pdo)), vmin(pdo))
        i_set == Min(i_nom, APDO_imax(pdo.w) * 50)
    IN  SetField(SetField(SetField(ZeroWord, 30, 28, ipdo + 1),
                          19, 9, v_set \div 20), 6, 0, i_set \div 50)

\* the request for the programmable offer pdo at 0-based index ipdo
ARDO(ipdo, pdo) ==
    LET v_set == Max(Min(v_nom, v_max), v_min)
        i_set == Min(i_nom, APDO_imax(pdo.w) * 50)
    IN  SetField(SetField(SetField(ZeroWord, 30, 28, ipdo + 1),
                          19, 9, v_set \div 20), 6, 0, i_set \div 50)

\* variant: the position is the 0-based index
FixedRDO_index(ipdo, pdo) ==
    LET i_set == Min(i_nom, FixedPDO_imax(pdo.w) * 10)
    IN  SetField(SetField(SetField(ZeroWord, 30, 28, ipdo),
                          19, 10, i_set \div 10), 9, 0, i_set \div 10)

\* the request for the fixed offer pdo at 0-based index ipdo
FixedRDO(ipdo, pdo) ==
    LET i_set == Min(i_nom, FixedPDO_imax(pdo.w) * 10)
    IN  SetField(SetField(SetField(ZeroWord, 30, 28, ipdo + 1),
                          19, 10, i_set \div 10), 9, 0, i_set \div 10)

\* the transactions of the request: one write_rdo, or none without a choice
request_profile(pdos, sel) ==
    IF sel = NoSel THEN << >>
    ELSE IF pdos[sel + 1].kind = "Programmable"
         THEN << write_rdo(ARDO(sel, pdos[sel + 1])) >>
         ELSE << write_rdo(FixedRDO(sel, pdos[sel + 1])) >>

(***************************************************************************)
(* RefCell: the set of borrows alive on a cell, each with its holder.      *)
(***************************************************************************)
borrow_mut_ok(cell) == cell = {}
borrow_ok(cell) == \A b \in cell : ~b.mut
Acquire(cell, task, mut) == cell \cup { [task |-> task, mut |-> mut] }
Drop(cell, task) == { b \in cell : b.task # task }

(***************************************************************************)
(* State.                                                                  *)
(***************************************************************************)
VARIABLES
    main_pc,      \* main: "sleep" (Timer 10 ms), "init", "choose", "joined"
    mon_pc,       \* monitor_fut: "start", "sleep" (Timer 5 s), "ready"
    blink_pc,     \* blink_fut: "start", "sleep_high", "ready_high",
                  \*            "sleep_low", "ready_low"
    panicked,     \* "no", or the reason the firmware halted
    irq,          \* level of the interrupt line pdc_irq
    pwr_en,       \* level of the power-enable output
    led,          \* level of the LED output
    pdc,          \* the driver: status and pdos
    pdc_rc,       \* borrows alive on pdc_rc
    pwr_en_rc,    \* borrows alive on pwr_en_rc
    init,         \* control_fut: no status update obtained yet
    status_res,   \* control_fut: result of the last update()
    delay,        \* blink_fut: << delay_high, delay_low >>
    tx,           \* per task, the bus transactions of its last run
    mon_res,      \* monitor_fut: result of its last telemetry read
    faulted,      \* a fault has deasserted the output and no update with
                  \* ready, success and no fault has been obtained since
    arg,          \* the inputs of an operation that is exercised on its own
    out           \* what that operation yields

vars == << main_pc, mon_pc, blink_pc, panicked, irq, pwr_en, led, pdc, pdc_rc,
           pwr_en_rc, init, status_res, delay, tx, mon_res, faulted, arg, out >>

Tasks == { "main", "monitor", "control", "blink" }

\* the tasks that await a timer
Timers == { "main", "monitor", "blink" }

fault(s) == ovp(s) \/ ocp(s) \/ otp(s)

\* variant: the output is created with Level::High
pwr_en_level0_high == TRUE

\* gpio::Output::new(p.PIN_23, gpio::Level::Low)
pwr_en_level0 == FALSE

\* no operation is exercised on its own
NoCall == [op |-> "none"]

\* the firmware as main() constructs it
Constructed ==
    /\ main_pc = "sleep"
    /\ mon_pc = "start"
    /\ blink_pc = "start"
    /\ panicked = "no"
    /\ irq = FALSE
    /\ pwr_en = pwr_en_level0
    /\ led = FALSE
    /\ pdc = new
    /\ pdc_rc = {}
    /\ pwr_en_rc = {}
    /\ init = TRUE
    /\ status_res = NoRes
    /\ delay = << 0, 0 >>
    /\ tx = [t \in Tasks |-> << >>]
    /\ mon_res = "none"
    /\ faulted = FALSE

Init ==
    /\ Constructed
    /\ arg = NoCall
    /\ out = NoCall

(***************************************************************************)
(* Environment: the interrupt line of the chip and the expiry of timers.   *)
(***************************************************************************)
IrqRaise ==
    /\ ~irq
    /\ irq' = TRUE
    /\ UNCHANGED << arg, out, main_pc, mon_pc, blink_pc, panicked, pwr_en, led, pdc,
                    pdc_rc, pwr_en_rc, init, status_res, delay, tx, mon_res,
                    faulted >>

IrqLower ==
    /\ irq
    /\ irq' = FALSE
    /\ UNCHANGED << arg, out, main_pc, mon_pc, blink_pc, panicked, pwr_en, led, pdc,
                    pdc_rc, pwr_en_rc, init, status_res, delay, tx, mon_res,
                    faulted >>

\* the timer awaited by task t expires
TimerExpire(t) ==
    /\ panicked = "no"
    /\ \/ /\ t = "main"
          /\ main_pc = "sleep"
          /\ main_pc' = "init"
          /\ UNCHANGED << mon_pc, blink_pc >>
       \/ /\ t = "monitor"
          /\ mon_pc = "sleep"
          /\ mon_pc' = "ready"
          /\ UNCHANGED << main_pc, blink_pc >>
       \/ /\ t = "blink"
          /\ blink_pc = "sleep_high"
          /\ blink_pc' = "ready_high"
          /\ UNCHANGED << main_pc, mon_pc >>
       \/ /\ t = "blink"
          /\ blink_pc = "sleep_low"
          /\ blink_pc' = "ready_low"
          /\ UNCHANGED << main_pc, mon_pc >>
    /\ UNCHANGED << arg, out, panicked, irq, pwr_en, led, pdc, pdc_rc, pwr_en_rc, init,
                    status_res, delay, tx, mon_res, faulted >>

(***************************************************************************)
(* main: the boot sequence.  The results of the configuration writes and   *)
(* of write_rdo are discarded (let _ =), so only the outcome of the read   *)
(* of the PDO block is an input.                                           *)
(***************************************************************************)
\* lines 42-50: initialisation under one mutable borrow of the driver
Initialise ==
    /\ main_pc = "init"
    /\ panicked = "no"
    /\ \E bus_ok \in BOOLEAN, blk \in Blocks :
         LET r == read_pdos(pdc, bus_ok, blk)
         IN  IF ~borrow_mut_ok(pdc_rc)
             THEN /\ panicked' = "borrow"
                  /\ UNCHANGED << main_pc, pdc, pdc_rc, tx >>
             ELSE IF ~write_ocpthr_fits(200)
             THEN /\ panicked' = "unwrap"
                  /\ pdc' = r.drv
                  /\ pdc_rc' = Acquire(pdc_rc, "main", TRUE)
                  /\ tx' = [tx EXCEPT !["main"] =
                               r.tx \o << write_tr, write_irqmask(247) >>]
                  /\ UNCHANGED main_pc
             ELSE /\ pdc' = r.drv
                  /\ pdc_rc' = Drop(Acquire(pdc_rc, "main", TRUE), "main")
                  /\ tx' = [tx EXCEPT !["main"] =
                               r.tx \o << write_tr, write_irqmask(247),
                                          write_ocpthr(200), write_otpthr(80),
                                          write_drthr(60) >>]
                  /\ main_pc' = "choose"
                  /\ UNCHANGED panicked
    /\ UNCHANGED << arg, out, mon_pc, blink_pc, irq, pwr_en, led, pwr_en_rc, init,
                    status_res, delay, mon_res, faulted >>

\* lines 52-131: choose profile, request profile; then join3 starts
ChooseProfile ==
    /\ main_pc = "choose"
    /\ panicked = "no"
    /\ IF ~borrow_mut_ok(pdc_rc)
       THEN /\ panicked' = "borrow"
            /\ UNCHANGED << main_pc, tx >>
       ELSE /\ tx' = [tx EXCEPT !["main"] =
                         @ \o request_profile(pdc.pdos, choose_profile(pdc.pdos))]
            /\ main_pc' = "joined"
            /\ UNCHANGED panicked
    /\ UNCHANGED << arg, out, mon_pc, blink_pc, irq, pwr_en, led, pdc, pdc_rc, pwr_en_rc,
                    init, status_res, delay, mon_res, faulted >>

(***************************************************************************)
(* monitor_fut: one telemetry sample, then Timer::after_secs(5).           *)
(***************************************************************************)
\* the three reads in order; unwrap() stops at the first failed one
monitor_reads(t_ok, v_ok, c_ok) ==
    IF ~t_ok THEN [ok |-> FALSE, tx |-> << read_temp >>]
    ELSE IF ~v_ok THEN [ok |-> FALSE, tx |-> << read_temp, read_voltage >>]
    ELSE [ok |-> c_ok, tx |-> << read_temp, read_voltage, read_current >>]

\* variant: the borrow is still alive when the timer is awaited
monitor_scope_exit_late(cell) == cell

\* line 184: the block holding the borrow ends before the timer is awaited
monitor_scope_exit(cell) == Drop(cell, "monitor")

MonitorSample ==
    /\ main_pc = "joined"
    /\ mon_pc \in { "start", "ready" }
    /\ panicked = "no"
    /\ \E t_ok \in BOOLEAN, v_ok \in BOOLEAN, c_ok \in BOOLEAN :
         LET r == monitor_reads(t_ok, v_ok, c_ok)
         IN  IF ~borrow_mut_ok(pdc_rc)
             THEN /\ panicked' = "borrow"
                  /\ UNCHANGED << mon_pc, pdc_rc, tx, mon_res >>
             ELSE IF ~r.ok
             THEN /\ panicked' = "unwrap"
                  /\ pdc_rc' = Acquire(pdc_rc, "monitor", TRUE)
                  /\ tx' = [tx EXCEPT !["monitor"] = r.tx]
                  /\ mon_res' = "Err"
                  /\ UNCHANGED mon_pc
             ELSE /\ pdc_rc' = monitor_scope_exit(Acquire(pdc_rc, "monitor", TRUE))
                  /\ tx' = [tx EXCEPT !["monitor"] = r.tx]
                  /\ mon_res' = "Ok"
                  /\ mon_pc' = "sleep"
                  /\ UNCHANGED panicked
    /\ UNCHANGED << arg, out, main_pc, blink_pc, irq, pwr_en, led, pdc, pwr_en_rc, init,
                    status_res, delay, faulted >>

(***************************************************************************)
(* control_fut: one iteration of the loop, from the return of              *)
(* wait_for_high to the next wait.                                         *)
(***************************************************************************)
\* the answers of the bus to a transaction: those in all when the
\* transaction is issued and its answer is read, a placeholder otherwise
Answers(issued, all, placeholder) == IF issued THEN all ELSE { placeholder }

\* variant: the first update reads the block only with newpdos set
first_update_reload_on_newpdos(drv, in_init, status, rd_ok, blk) ==
    IF in_init /\ newpdos(status)
    THEN LET r == read_pdos(drv, rd_ok, blk) IN [drv |-> r.drv, tx |-> r.tx]
    ELSE [drv |-> drv, tx |-> << >>]

\* lines 141-143: on the first update the PDO block is read again
first_update_reload(drv, in_init, status, rd_ok, blk) ==
    IF in_init
    THEN LET r == read_pdos(drv, rd_ok, blk) IN [drv |-> r.drv, tx |-> r.tx]
    ELSE [drv |-> drv, tx |-> << >>]

\* lines 144-145: the first-update flag after an obtained status
init_after(in_init, status) ==
    IF in_init \/ newpdos(status) THEN FALSE ELSE in_init

\* variant: ready and success are tested before the fault bits
power_decision_success_first(status, pwr) ==
    IF ready(status) /\ success(status) THEN TRUE
    ELSE IF ovp(status) \/ ocp(status) \/ otp(status) THEN FALSE
    ELSE pwr

\* variant: the output is set low whenever it is not set high
power_decision_else_low(status, pwr) ==
    IF ovp(status) \/ ocp(status) \/ otp(status) THEN FALSE
    ELSE IF ready(status) /\ success(status) THEN TRUE
    ELSE FALSE

\* variant: ready alone asserts the output
power_decision_ready_only(status, pwr) ==
    IF ovp(status) \/ ocp(status) \/ otp(status) THEN FALSE
    ELSE IF ready(status) THEN TRUE
    ELSE pwr

\* lines 160-170: the level of the output after an obtained status
power_decision(status, pwr) ==
    IF ovp(status) \/ ocp(status) \/ otp(status) THEN FALSE
    ELSE IF ready(status) /\ success(status) THEN TRUE
    ELSE pwr

\* lines 160-170: whether the iteration borrows the output cell
power_written(status) ==
    \/ ovp(status) \/ ocp(status) \/ otp(status)
    \/ ready(status) /\ success(status)

\* variant: a failed update is handled like a fault
control_body_err_low(in_init, pwr, u, rd_ok, blk) ==
    IF u.res.kind = "Ok"
    THEN LET r == first_update_reload(u.drv, in_init, u.res.status, rd_ok, blk)
         IN  [pdc |-> r.drv,
              init |-> init_after(in_init, u.res.status),
              pwr_en |-> power_decision(u.res.status, pwr),
              pwr_borrow |-> power_written(u.res.status),
              tx |-> u.tx \o r.tx]
    ELSE [pdc |-> u.drv, init |-> in_init, pwr_en |-> FALSE,
          pwr_borrow |-> TRUE, tx |-> u.tx]

\* lines 139-171: the body of the loop for the result u of update()
control_body(in_init, pwr, u, rd_ok, blk) ==
    IF u.res.kind = "Ok"
    THEN LET r == first_update_reload(u.drv, in_init, u.res.status, rd_ok, blk)
         IN  [pdc |-> r.drv,
              init |-> init_after(in_init, u.res.status),
              pwr_en |-> power_decision(u.res.status, pwr),
              pwr_borrow |-> power_written(u.res.status),
              tx |-> u.tx \o r.tx]
    ELSE [pdc |-> u.drv, init |-> in_init, pwr_en |-> pwr,
          pwr_borrow |-> FALSE, tx |-> u.tx]

\* the fault latch after the result res of update()
faulted_after(res, latch) ==
    IF res.kind # "Ok" THEN latch
    ELSE IF fault(res.status) THEN TRUE
    ELSE IF ready(res.status) /\ success(res.status) THEN FALSE
    ELSE latch

CtlIteration ==
    /\ main_pc = "joined"
    /\ mon_pc # "start"
    /\ irq
    /\ panicked = "no"
    /\ \E st_ok \in BOOLEAN :
       \E s \in Answers(st_ok, StatusBytes, 0) :
       \E pd_ok \in Answers(st_ok /\ ready(s) /\ newpdos(s), BOOLEAN, TRUE) :
       \E blk1 \in Answers(st_ok /\ ready(s) /\ newpdos(s) /\ pd_ok,
                            Blocks, BlockSamples[1]) :
       \E rd_ok \in Answers(st_ok /\ pd_ok /\ init, BOOLEAN, TRUE) :
       \E blk2 \in Answers(st_ok /\ pd_ok /\ init /\ rd_ok,
                            Blocks, BlockSamples[1]) :
         LET u == update(pdc, st_ok, s, pd_ok, blk1)
             b == control_body(init, pwr_en, u, rd_ok, blk2)
         IN  IF ~borrow_mut_ok(pdc_rc)
             THEN /\ panicked' = "borrow"
                  /\ UNCHANGED << pdc, init, status_res, pwr_en, tx, faulted >>
             ELSE /\ pdc' = b.pdc
                  /\ init' = b.init
                  /\ status_res' = u.res
                  /\ tx' = [tx EXCEPT !["control"] = b.tx]
                  /\ IF b.pwr_borrow /\ ~borrow_mut_ok(pwr_en_rc)
                     THEN /\ panicked' = "borrow"
                          /\ UNCHANGED << pwr_en, faulted >>
                     ELSE /\ pwr_en' = b.pwr_en
                          /\ faulted' = faulted_after(u.res, faulted)
                          /\ UNCHANGED panicked
    /\ UNCHANGED << arg, out, main_pc, mon_pc, blink_pc, irq, led, pdc_rc, pwr_en_rc,
                    delay, mon_res >>

(***************************************************************************)
(* blink_fut: the LED cadence follows the level of the output.             *)
(***************************************************************************)
\* lines 194-196: delay_high and delay_low for the level read
blink_delays(level) == IF level THEN << 1000, 100 >> ELSE << 100, 1000 >>

\* lines 193-200
BlinkOn ==
    /\ main_pc = "joined"
    /\ mon_pc # "start"
    /\ blink_pc \in { "start", "ready_low" }
    /\ panicked = "no"
    /\ IF ~borrow_ok(pwr_en_rc)
       THEN /\ panicked' = "borrow"
            /\ UNCHANGED << blink_pc, led, delay, pwr_en_rc >>
       ELSE /\ delay' = blink_delays(pwr_en)
            /\ pwr_en_rc' = Drop(Acquire(pwr_en_rc, "blink", FALSE), "blink")
            /\ led' = TRUE
            /\ blink_pc' = "sleep_high"
            /\ UNCHANGED panicked
    /\ UNCHANGED << arg, out, main_pc, mon_pc, irq, pwr_en, pdc, pdc_rc, init,
                    status_res, tx, mon_res, faulted >>

\* lines 202-203
BlinkOff ==
    /\ blink_pc = "ready_high"
    /\ panicked = "no"
    /\ led' = FALSE
    /\ blink_pc' = "sleep_low"
    /\ UNCHANGED << arg, out, main_pc, mon_pc, panicked, irq, pwr_en, pdc, pdc_rc,
                    pwr_en_rc, init, status_res, delay, tx, mon_res, faulted >>

Next ==
    \/ IrqRaise
    \/ IrqLower
    \/ \E t \in Timers : TimerExpire(t)
    \/ Initialise
    \/ ChooseProfile
    \/ MonitorSample
    \/ CtlIteration
    \/ BlinkOn
    \/ BlinkOff

Spec == Init /\ [][Next]_vars

\* the executor polls a future whose await has completed, and every timer
\* that is armed expires
FairSpec ==
    /\ Spec
    /\ \A t \in Timers : WF_vars(TimerExpire(t))
    /\ WF_vars(MonitorSample)
    /\ WF_vars(CtlIteration)
    /\ WF_vars(BlinkOn)
    /\ WF_vars(BlinkOff)

TypeOK ==
    /\ main_pc \in { "sleep", "init", "choose", "joined" }
    /\ mon_pc \in { "start", "sleep", "ready" }
    /\ blink_pc \in { "start", "sleep_high", "ready_high", "sleep_low", "ready_low" }
    /\ panicked \in { "no", "borrow", "unwrap" }
    /\ irq \in BOOLEAN /\ pwr_en \in BOOLEAN /\ led \in BOOLEAN
    /\ init \in BOOLEAN /\ faulted \in BOOLEAN
    /\ status_res.kind \in { "None", "Ok", "Err" }
    /\ mon_res \in { "none", "Ok", "Err" }

(***************************************************************************)
(* Properties of the control loop.                                         *)
(***************************************************************************)
\* the step is an iteration of the control loop (what the iteration leaves
\* unchanged is tested first)
ControlStep ==
    /\ UNCHANGED << main_pc, mon_pc, blink_pc, irq, led, pdc_rc, pwr_en_rc,
                    delay, mon_res >>
    /\ CtlIteration

\* the step is an iteration of the control loop that obtained a status
Obtained == status_res'.kind = "Ok" /\ panicked' = "no" /\ ControlStep

\* the step is an iteration of the control loop in which update() failed
Failed == status_res'.kind = "Err" /\ ControlStep

HasRdoWrite(log) == \E k \in 1..Len(log) : log[k].wr /\ log[k].reg = 48

PdoReads(log) == Cardinality({ k \in 1..Len(log) : log[k] = RD(0) })

\* C1: whenever the last status the control loop obtained has ovp, ocp or
\* otp set, the power-enable output is deasserted when the iteration ends,
\* whatever the other bits of that status are.
FaultPrecedence ==
    (status_res.kind = "Ok" /\ fault(status_res.status)) => ~pwr_en

\* a fault with ready and success set has deasserted an output that the
\* blink task had seen asserted
FaultPrecedenceWitness ==
    /\ status_res = Ok(19)
    /\ ~pwr_en
    /\ delay = << 1000, 100 >>

\* C2 as stated: after every obtained status the output is asserted only if
\* that status has ready and success set and no fault bit.
AssertedOnlyOnSuccessStatus ==
    (status_res.kind = "Ok" /\ pwr_en) =>
        /\ ready(status_res.status)
        /\ success(status_res.status)
        /\ ~fault(status_res.status)

\* C2 as amended: an obtained status asserts the output only if it has ready
\* and success set and no fault bit, and an obtained status with no fault
\* bit and without (ready and success) leaves the output as it was.
OutputKeptWithoutSuccess ==
    [][ Obtained =>
          /\ (pwr_en' /\ ~pwr_en) =>
                /\ ready(status_res'.status)
                /\ success(status_res'.status)
                /\ ~fault(status_res'.status)
          /\ (~fault(status_res'.status)
                /\ ~(ready(status_res'.status) /\ success(status_res'.status)))
             => pwr_en' = pwr_en ]_vars

\* the last obtained status has neither a fault bit nor (ready and success)
\* and the output is still asserted from an earlier update
OutputKeptWitness ==
    /\ status_res.kind = "Ok"
    /\ ~fault(status_res.status)
    /\ ~(ready(status_res.status) /\ success(status_res.status))
    /\ pwr_en
    /\ panicked = "no"

\* C3 as stated: after a fault has deasserted the output, an obtained status
\* with newpdos clear does not assert the output.
NoAssertWithoutNewpdos ==
    [][ (/\ status_res.kind = "Ok"
         /\ fault(status_res.status)
         /\ ~pwr_en
         /\ Obtained
         /\ ~newpdos(status_res'.status)) => ~pwr_en' ]_vars

\* C3 as amended: once a fault has deasserted the output, the output stays
\* deasserted until the control loop has obtained a status with ready and
\* success set and no fault bit; newpdos is not needed.
NoRecoveryWithoutSuccess == faulted => ~pwr_en

\* after a fault, a fault-free status with newpdos but without success has
\* been obtained and the output is still deasserted
NoRecoveryWitness ==
    /\ faulted
    /\ status_res = Ok(5)
    /\ ~pwr_en
    /\ panicked = "no"

\* C4: an iteration in which update() fails changes neither the output nor
\* the first-update flag, writes no RDO and does not halt the firmware.
FailedUpdateInert ==
    [][ Failed =>
          /\ pwr_en' = pwr_en
          /\ init' = init
          /\ faulted' = faulted
          /\ ~HasRdoWrite(tx'["control"])
          /\ panicked' = "no" ]_vars

\* update() has failed after the output was asserted: output still asserted
FailedUpdateWitness ==
    /\ status_res.kind = "Err"
    /\ pwr_en
    /\ ~init
    /\ panicked = "no"

\* C5: an iteration that obtains a fault-free status which is the first one
\* or has newpdos set writes an RDO when a compatible slot is in the table.
ReselectOnNewPdos ==
    [][ (/\ Obtained
         /\ ~fault(status_res'.status)
         /\ (init \/ newpdos(status_res'.status))
         /\ choose_profile(pdc'.pdos) # NoSel)
        => HasRdoWrite(tx'["control"]) ]_vars

\* C6: the first obtained status makes the control loop read the PDO block,
\* also with newpdos clear, and clears the first-update flag; a failed
\* update leaves the first-update flag as it was.
FirstUpdateReload ==
    [][ /\ (Obtained /\ init) =>
              /\ ~init'
              /\ PdoReads(tx'["control"]) =
                    IF ready(status_res'.status) /\ newpdos(status_res'.status)
                    THEN 2 ELSE 1
              /\ tx'["control"][Len(tx'["control"])] = RD(0)
        /\ Failed => init' = init ]_vars

\* the first obtained status had newpdos clear and the block was read
FirstUpdateReloadWitness ==
    /\ status_res = Ok(1)
    /\ ~init
    /\ tx["control"] = << RD(29), RD(0) >>

(***************************************************************************)
(* Properties of the tasks sharing the driver and the output.              *)
(***************************************************************************)
Holders(cell) == { b.task : b \in cell }

\* C7: no borrow of the driver or of the output cell ever fails, at most
\* one task holds a borrow, and no borrow is alive while the tasks are
\* suspended.
MutualExclusion ==
    /\ panicked # "borrow"
    /\ Cardinality(Holders(pdc_rc) \cup Holders(pwr_en_rc)) <= 1
    /\ panicked = "no" => (pdc_rc = {} /\ pwr_en_rc = {})

\* the three tasks have all run and the cells are free
MutualExclusionWitness ==
    /\ mon_res = "Ok"
    /\ status_res.kind = "Ok"
    /\ blink_pc = "sleep_low"
    /\ pwr_en
    /\ pdc_rc = {}
    /\ panicked = "no"

\* C8: when a telemetry read of the monitor task fails, the driver is
\* released and the firmware keeps running.
ReleaseOnTelemetryError ==
    mon_res = "Err" => (pdc_rc = {} /\ panicked = "no")

\* C9: the output starts deasserted and no step of initialisation, profile
\* selection, the monitor task or the blink task changes it.
SoleWriter ==
    /\ ~pwr_en
    /\ [][ (\/ Initialise
            \/ ChooseProfile
            \/ MonitorSample
            \/ BlinkOn
            \/ BlinkOff
            \/ \E t \in Timers : TimerExpire(t)) => pwr_en' = pwr_en ]_vars

\* the blink task and the monitor task have run after the control loop
\* asserted the output, and the output is still asserted
SoleWriterWitness ==
    /\ pwr_en
    /\ delay = << 1000, 100 >>
    /\ led
    /\ mon_pc = "sleep"
    /\ init = FALSE

\* C10: after a fault has deasserted the output, the monitor task still
\* completes every sample that falls due and the blink task still toggles
\* the LED.
FaultedNow == status_res.kind = "Ok" /\ fault(status_res.status) /\ ~pwr_en

TasksSurviveFault ==
    /\ (FaultedNow /\ mon_pc = "ready") ~> (mon_pc = "sleep")
    /\ (FaultedNow /\ led) ~> ~led
    /\ (FaultedNow /\ ~led) ~> led

(***************************************************************************)
(* The driver on its own: one call of update() or read_pdos() on a driver  *)
(* value, with the answers of the bus as inputs.                           *)
(***************************************************************************)
DecodeBlock(blk) == [i \in 1..7 |-> DecodeSlot(blk[i])]

\* the driver values the firmware can hold
Drivers ==
    { [status |-> s0, pdos |-> DecodeBlock(b)] : s0 \in StatusBytes, b \in Blocks }

DriverArg(d, a, s, b, k) ==
    [op |-> "driver", drv |-> d, st_ok |-> a, s |-> s, pd_ok |-> b, blk |-> k]

DriverInit ==
    /\ Constructed
    /\ \E d \in Drivers, a \in BOOLEAN, s \in StatusBytes, b \in BOOLEAN, k \in Blocks :
          arg = DriverArg(d, a, s, b, k)
    /\ out = NoCall

CallUpdate ==
    /\ arg.op = "driver"
    /\ out = NoCall
    /\ out' = [op |-> "update",
               r |-> update(arg.drv, arg.st_ok, arg.s, arg.pd_ok, arg.blk)]
    /\ UNCHANGED << main_pc, mon_pc, blink_pc, panicked, irq, pwr_en, led, pdc,
                    pdc_rc, pwr_en_rc, init, status_res, delay, tx, mon_res,
                    faulted, arg >>

CallReadPdos ==
    /\ arg.op = "driver"
    /\ out = NoCall
    /\ out' = [op |-> "read_pdos", r |-> read_pdos(arg.drv, arg.pd_ok, arg.blk)]
    /\ UNCHANGED << main_pc, mon_pc, blink_pc, panicked, irq, pwr_en, led, pdc,
                    pdc_rc, pwr_en_rc, init, status_res, delay, tx, mon_res,
                    faulted, arg >>

CallPdUpdate ==
    /\ arg.op = "driver"
    /\ out = NoCall
    /\ out' = [op |-> "pd_update",
               r |-> pd_update(arg.drv, arg.st_ok, arg.s, arg.pd_ok, arg.blk)]
    /\ UNCHANGED << main_pc, mon_pc, blink_pc, panicked, irq, pwr_en, led, pdc,
                    pdc_rc, pwr_en_rc, init, status_res, delay, tx, mon_res,
                    faulted, arg >>

DriverNext ==
    \/ CallUpdate
    \/ CallReadPdos
    \/ CallPdUpdate

DriverSpec == DriverInit /\ [][DriverNext]_vars

\* the call reads the PDO block: the status read succeeds with ready and newpdos
Rereads == arg.st_ok /\ ready(arg.s) /\ newpdos(arg.s)

StatusReads(log) == Cardinality({ k \in 1..Len(log) : log[k] = RD(29) })

\* C11: update() reads the status register once, reads and decodes the PDO
\* block exactly when the status just read has ready and newpdos, leaves the
\* PDO Table alone otherwise, and on success returns the status just read.
UpdateContract ==
    out.op = "update" =>
        /\ StatusReads(out.r.tx) = 1
        /\ out.r.tx[1] = RD(29)
        /\ PdoReads(out.r.tx) = IF Rereads THEN 1 ELSE 0
        /\ (Rereads /\ arg.pd_ok) => out.r.drv.pdos = DecodeBlock(arg.blk)
        /\ ~Rereads => out.r.drv.pdos = arg.drv.pdos
        /\ (arg.st_ok /\ (Rereads => arg.pd_ok)) => out.r.res = Ok(arg.s)
        /\ out.r.res.kind = "Ok" => out.r.res.status = arg.s

\* update() has read ready and newpdos and has replaced the table by the
\* decoded block
UpdateContractWitness ==
    /\ out.op = "update"
    /\ arg.st_ok /\ arg.pd_ok
    /\ arg.s = 5
    /\ out.r.res = Ok(5)
    /\ out.r.drv.pdos # arg.drv.pdos
    /\ out.r.drv.pdos = DecodeBlock(arg.blk)

\* C12: after a driver operation the seven slots are the seven slots held
\* before, or the seven slots decoded from the one block that was read;
\* after a failed operation they are the slots held before.
TableWhole ==
    out.op \in { "update", "read_pdos", "pd_update" } =>
        /\ \/ out.r.drv.pdos = arg.drv.pdos
           \/ out.r.drv.pdos = DecodeBlock(arg.blk)
        /\ (~arg.st_ok /\ out.op # "read_pdos") => out.r.drv.pdos = arg.drv.pdos
        /\ ~arg.pd_ok => out.r.drv.pdos = arg.drv.pdos

\* update() has failed on the read of a block that differs from the table
TableWholeWitness ==
    /\ out.op = "update"
    /\ Rereads
    /\ ~arg.pd_ok
    /\ out.r.res = Err
    /\ DecodeBlock(arg.blk) # arg.drv.pdos
    /\ out.r.drv.pdos = arg.drv.pdos
    /\ \E i \in 1..7 : arg.drv.pdos[i] # NoPDO

\* C13: an operation of the driver, in the library and in bin/pd.rs, returns
\* an error whenever a bus transaction it issues fails.
NeverMasksFailure ==
    /\ out.op \in { "update", "pd_update" } =>
          ((~arg.st_ok \/ (Rereads /\ ~arg.pd_ok)) => out.r.res.kind = "Err")
    /\ out.op = "read_pdos" => (~arg.pd_ok => ~out.r.ok)

(***************************************************************************)
(* The decoding of one word on its own.  A word is put together from its   *)
(* type nibble (bits 31:28) and the bit ranges 27:20, 19:10 and 9:0.       *)
(***************************************************************************)
Samples(list) == { list[k] : k \in { j \in 1..Len(list) : j <= NumFieldValues } }

Bits27to20 == Samples(<< 0, 1, 31, 255, 170, 32 >>)
Bits19to10 == Samples(<< 0, 100, 1023, 129, 640, 1 >>)
Bits9to0 == Samples(<< 0, 300, 1023, 60, 256, 127 >>)

\* the word n * 2^28 + a * 2^20 + v * 2^10 + i as two 16-bit halves
WordOf(n, a, v, i) ==
    << n * 4096 + a * 16 + (v \div 64), (v % 64) * 1024 + i >>

CodecArg(n, a, v, i) ==
    [op |-> "codec", n |-> n, a |-> a, v |-> v, i |-> i, w |-> WordOf(n, a, v, i)]

CodecInit ==
    /\ Constructed
    /\ \E n \in 0..15, a \in Bits27to20, v \in Bits19to10, i \in Bits9to0 :
          arg = CodecArg(n, a, v, i)
    /\ out = NoCall

CallDecode ==
    /\ arg.op = "codec"
    /\ out = NoCall
    /\ out' = [op |-> "decode", r |-> DecodeSlot(arg.w)]
    /\ UNCHANGED << main_pc, mon_pc, blink_pc, panicked, irq, pwr_en, led, pdc,
                    pdc_rc, pwr_en_rc, init, status_res, delay, tx, mon_res,
                    faulted, arg >>

CodecNext == CallDecode

CodecSpec == CodecInit /\ [][CodecNext]_vars

\* the word is 0
ArgZero == arg.n = 0 /\ arg.a = 0 /\ arg.v = 0 /\ arg.i = 0
\* w & 0xF0000000 = 0xC0000000
ArgProgrammable == arg.n = 12
\* w & 0xC0000000 = 0
ArgFixed == arg.n < 4

\* C14: a slot is absent iff its word is 0 or matches neither pattern, it is
\* Programmable iff the type nibble is 0xC, it is Fixed iff the word is not 0
\* and bits 31:30 are 0, and the values are the bit ranges times their LSB.
DecodeClassification ==
    out.op = "decode" =>
        /\ out.r.kind = "None" <=> (ArgZero \/ (~ArgProgrammable /\ ~ArgFixed))
        /\ out.r.kind = "Programmable" <=> ArgProgrammable
        /\ out.r.kind = "Fixed" <=> (~ArgZero /\ ArgFixed)
        /\ out.r.kind = "Fixed" =>
              /\ vmin(out.r) = arg.v * 50
              /\ vmax(out.r) = arg.v * 50
              /\ imax(out.r) = arg.i * 10
        /\ out.r.kind = "Programmable" =>
              /\ vmax(out.r) = ((arg.a % 32) * 8 + (arg.v \div 128)) * 100
              /\ vmin(out.r) = ((arg.v % 64) * 4 + (arg.i \div 256)) * 100
              /\ imax(out.r) = (arg.i % 128) * 50

\* a fixed offer with bits set in 29:20 has been decoded to its values
DecodeClassificationWitness ==
    /\ out.op = "decode"
    /\ arg.n = 3
    /\ arg.a = 255
    /\ out.r.kind = "Fixed"
    /\ vmin(out.r) = 5000
    /\ imax(out.r) = 3000

\* C15: a Programmable PDO decoded from a word of the chip has
\* voltage_min <= voltage_max.
ProgrammableRangeOrdered ==
    (out.op = "decode" /\ out.r.kind = "Programmable") => vmin(out.r) <= vmax(out.r)

(***************************************************************************)
(* Profile selection and request on their own: the scan and the request of *)
(* main.rs:58-130 on a table decoded from a block of the chip.             *)
(***************************************************************************)
OfferSamples ==
    << FixedWord(100, 300), FixedWord(100, 200), ApdoWord(110, 33, 100),
       ApdoWord(110, 40, 60), FixedWord(100, 50), FixedWord(180, 300),
       UnknownWord, ApdoWord(110, 90, 100), FixedWord(66, 1023),
       ApdoWord(59, 33, 10) >>

OfferWords ==
    { OfferSamples[k] : k \in { j \in 1..Len(OfferSamples) : j <= NumOfferWords } }

\* the sets of slots that hold an offer
OfferSlots == { T \in SUBSET (1..7) : Cardinality(T) <= NumOffers }

\* the block with the offers g in the slots of S and 0 in the other slots
BlockWith(S, g) == [i \in 1..7 |-> IF i \in S THEN g[i] ELSE ZeroWord]

SelectArg(b) == [op |-> "select", blk |-> b, pdos |-> DecodeBlock(b)]

SelectInit ==
    /\ Constructed
    /\ \E S \in OfferSlots : \E g \in [S -> OfferWords] :
          arg = SelectArg(BlockWith(S, g))
    /\ out = NoCall

CallSelect ==
    /\ arg.op = "select"
    /\ out = NoCall
    /\ out' = [op |-> "select",
               sel |-> choose_profile(arg.pdos),
               tx |-> request_profile(arg.pdos, choose_profile(arg.pdos))]
    /\ UNCHANGED << main_pc, mon_pc, blink_pc, panicked, irq, pwr_en, led, pdc,
                    pdc_rc, pwr_en_rc, init, status_res, delay, tx, mon_res,
                    faulted, arg >>

SelectNext == CallSelect

SelectSpec == SelectInit /\ [][SelectNext]_vars

\* the offer is present and compatible with the target
Compatible(pdo) ==
    /\ pdo.kind # "None"
    /\ v_min <= vmax(pdo)
    /\ vmin(pdo) <= v_max
    /\ imax(pdo) >= i_min

CompatibleSlots(kind) ==
    { i \in 1..7 : Compatible(arg.pdos[i]) /\ arg.pdos[i].kind = kind }

Selected == arg.pdos[out.sel + 1]

\* C16: the selection yields a slot iff a present slot is compatible, the
\* slot it yields is present and compatible, and without a compatible slot
\* no RDO is written.
SelectionSound ==
    out.op = "select" =>
        /\ out.sel # NoSel <=> (\E i \in 1..7 : Compatible(arg.pdos[i]))
        /\ out.sel # NoSel => (out.sel \in 0..6 /\ Compatible(Selected))
        /\ out.sel = NoSel => out.tx = << >>
        /\ out.sel # NoSel => (Len(out.tx) = 1 /\ HasRdoWrite(out.tx))

\* offers are present, one fails on voltage and one on current, nothing is
\* written
SelectionSoundWitness ==
    /\ out.op = "select"
    /\ out.sel = NoSel
    /\ out.tx = << >>
    /\ \E i \in 1..7 : arg.pdos[i].kind = "Fixed" /\ vmin(arg.pdos[i]) > v_max
    /\ \E i \in 1..7 : arg.pdos[i].kind = "Fixed" /\ imax(arg.pdos[i]) < i_min

\* C17: with a compatible Programmable slot in the table the selected slot
\* is Programmable; a Fixed slot is selected only without one.
VariantPriority ==
    (out.op = "select" /\ out.sel # NoSel) =>
        /\ CompatibleSlots("Programmable") # {} => Selected.kind = "Programmable"
        /\ Selected.kind = "Fixed" => CompatibleSlots("Programmable") = {}

\* a Programmable slot is selected between two compatible Fixed slots
VariantPriorityWitness ==
    /\ out.op = "select"
    /\ out.sel # NoSel
    /\ Selected.kind = "Programmable"
    /\ \E i \in CompatibleSlots("Fixed") : i < out.sel + 1
    /\ \E i \in CompatibleSlots("Fixed") : i > out.sel + 1

\* C18: the selected slot is the lowest slot with the highest current_max
\* among the compatible slots of its variant.
TieBreakByCurrent ==
    (out.op = "select" /\ out.sel # NoSel) =>
        LET C == CompatibleSlots(Selected.kind)
            best == { i \in C : \A j \in C : imax(arg.pdos[j]) <= imax(arg.pdos[i]) }
        IN  /\ out.sel + 1 \in best
            /\ \A i \in best : out.sel + 1 <= i

Clamp(v, lo, hi) == IF v < lo THEN lo ELSE IF v > hi THEN hi ELSE v

\* C19: for a Fixed slot at index k the word written is (k+1) * 2^28 +
\* c * 2^10 + c with c = min(i_nom, current_max) / 10, c in 10 bits.
FixedRequestWord ==
    (out.op = "select" /\ out.sel # NoSel /\ Selected.kind = "Fixed") =>
        LET c == Min(i_nom, imax(Selected)) \div 10
            pos == out.sel + 1
        IN  /\ pos \in 1..7
            /\ c < 1024
            /\ out.tx = << WR(48, << << pos * 4096 + (c \div 64),
                                        (c % 64) * 1024 + c >> >>) >>

\* the Fixed slot at position 7 is requested
FixedRequestWordWitness ==
    /\ out.op = "select"
    /\ out.sel = 6
    /\ Selected.kind = "Fixed"
    /\ out.tx = << WR(48, << << 7 * 4096 + 1, 36 * 1024 + 100 >> >>) >>

\* C20: for a Programmable slot at index k the word written is (k+1) * 2^28
\* + v * 2^9 + c with v = clamp(v_nom, v_min, v_max) / 20 in 11 bits and
\* c = min(i_nom, current_max) / 50 in 7 bits.
ProgrammableRequestWord ==
    (out.op = "select" /\ out.sel # NoSel /\ Selected.kind = "Programmable") =>
        LET v == Clamp(v_nom, v_min, v_max) \div 20
            c == Min(i_nom, imax(Selected)) \div 50
            pos == out.sel + 1
        IN  /\ pos \in 1..7
            /\ v < 2048
            /\ c < 128
            /\ out.tx = << WR(48, << << pos * 4096 + (v \div 128),
                                        (v % 128) * 512 + c >> >>) >>

\* a Programmable slot whose range starts above v_nom is requested at v_nom
ProgrammableRequestWordWitness ==
    /\ out.op = "select"
    /\ out.sel # NoSel
    /\ Selected.kind = "Programmable"
    /\ vmin(Selected) > v_nom
    /\ out.tx = << WR(48, << << (out.sel + 1) * 4096 + 1, 42 * 512 + 20 >> >>) >>

(***************************************************************************)
(* Properties of the control loop on a fault.                              *)
(***************************************************************************)
\* the number of transactions update() issues when it returns status s
UpdateLen(s) == IF ready(s) /\ newpdos(s) THEN 2 ELSE 1

\* C21: in an iteration whose obtained status has a fault bit, the control
\* task issues no bus transaction after those of update() and before it
\* deasserts the output, also on the first update since boot.
ImmediateDeassertion ==
    [][ (Obtained /\ fault(status_res'.status)) =>
            /\ ~pwr_en'
            /\ Len(tx'["control"]) = UpdateLen(status_res'.status) ]_vars

\* C22: after an iteration of the control loop, a status stored in the
\* driver that has ovp, ocp or otp set goes with a deasserted output, also
\* when update() stored the status and then failed on the PDO block.
StoredFaultDeasserts ==
    [][ (ControlStep /\ panicked' = "no" /\ fault(pdc'.status)) => ~pwr_en' ]_vars

(***************************************************************************)
(* write_ocpthr on its own, for every u16 threshold.                       *)
(***************************************************************************)
\* mod.rs:95-98: the conversion to u8 is unwrapped before the bus write
call_write_ocpthr(thr, bus_ok) ==
    IF write_ocpthr_fits(thr)
    THEN [panic |-> FALSE, res |-> IF bus_ok THEN OkUnit ELSE Err,
          tx |-> << write_ocpthr(thr) >>]
    ELSE [panic |-> TRUE, res |-> NoRes, tx |-> << >>]

OcpArg(thr, bus_ok) == [op |-> "ocpthr", thr |-> thr, bus_ok |-> bus_ok]

OcpInit ==
    /\ Constructed
    /\ \E thr \in 0..65535, bus_ok \in BOOLEAN : arg = OcpArg(thr, bus_ok)
    /\ out = NoCall

CallWriteOcpthr ==
    /\ arg.op = "ocpthr"
    /\ out = NoCall
    /\ out' = [op |-> "write_ocpthr", r |-> call_write_ocpthr(arg.thr, arg.bus_ok)]
    /\ UNCHANGED << main_pc, mon_pc, blink_pc, panicked, irq, pwr_en, led, pdc,
                    pdc_rc, pwr_en_rc, init, status_res, delay, tx, mon_res,
                    faulted, arg >>

OcpNext == CallWriteOcpthr

OcpSpec == OcpInit /\ [][OcpNext]_vars

\* C24: write_ocpthr(thr) writes the one byte thr / 50 to register 0x23 for
\* every thr up to 12750, and for every thr above 12750 it panics without a
\* bus write.
OcpThresholdRange ==
    out.op = "write_ocpthr" =>
        IF arg.thr <= 12750
        THEN /\ ~out.r.panic
             /\ out.r.tx = << WR(35, << arg.thr \div 50 >>) >>
             /\ arg.thr \div 50 \in 0..255
        ELSE /\ out.r.panic
             /\ out.r.tx = << >>

(***************************************************************************)
(* bin/pd.rs: the program.  main boots, selects and requests a profile,    *)
(* waits 100 ms and enables the output; write_fut then logs telemetry      *)
(* every 5 s and the task blink_led toggles the LED every second.  The     *)
(* USB futures touch neither the driver nor the outputs.  main_pc is       *)
(* "sleep" (Timer 10 ms), "boot", "sleep100", "enable", "joined"; mon_pc   *)
(* is the position of write_fut.                                           *)
(***************************************************************************)
pd_v_nom == 4200
pd_v_min == 3300
pd_v_max == 5000
pd_i_nom == 2000
pd_i_min == 1500

\* pd.rs:266-306: one iteration of the scan
pd_SelectStep(pdos, i, sel) ==
    LET pdo == pdos[i + 1]
    IN  IF pdo.kind = "None" THEN sel
        ELSE IF ~(vcomp(pdo, pd_v_min, pd_v_max) /\ icomp(pdo, pd_i_min)) THEN sel
        ELSE IF sel = NoSel THEN i
        ELSE LET pdo_old == pdos[sel + 1]
             IN  CASE pdo.kind = "Programmable" /\ pdo_old.kind = "Fixed" -> i
                   [] pdo.kind = "Fixed" /\ pdo_old.kind = "Fixed" ->
                        IF imax(pdo) > FixedPDO_imax(pdo_old.w) THEN i ELSE sel
                   [] pdo.kind = "Programmable" /\ pdo_old.kind = "Programmable" ->
                        IF imax(pdo) > APDO_imax(pdo_old.w) THEN i ELSE sel
                   [] OTHER -> sel

RECURSIVE pd_SelectFrom(_, _, _)
pd_SelectFrom(pdos, i, sel) ==
    IF i > 6 THEN sel ELSE pd_SelectFrom(pdos, i + 1, pd_SelectStep(pdos, i, sel))

pd_choose_profile(pdos) == pd_SelectFrom(pdos, 0, NoSel)

\* pd.rs:310-315
pd_ARDO(ipdo, pdo) ==
    LET v_set == Max(Min(pd_v_nom, pd_v_max), pd_v_min)
        i_set == Min(pd_i_nom, APDO_imax(pdo.w) * 50)
    IN  SetField(SetField(SetField(ZeroWord, 30, 28, ipdo + 1),
                          19, 9, v_set \div 20), 6, 0, i_set \div 50)

\* pd.rs:319-323
pd_FixedRDO(ipdo, pdo) ==
    LET i_set == Min(pd_i_nom, FixedPDO_imax(pdo.w) * 10)
    IN  SetField(SetField(SetField(ZeroWord, 30, 28, ipdo + 1),
                          19, 10, i_set \div 10), 9, 0, i_set \div 10)

\* pd.rs:308-327: one write_rdo, or none without a choice
pd_request_profile(pdos, sel) ==
    IF sel = NoSel THEN << >>
    ELSE IF pdos[sel + 1].kind = "Programmable"
         THEN << write_rdo(pd_ARDO(sel, pdos[sel + 1])) >>
         ELSE << write_rdo(pd_FixedRDO(sel, pdos[sel + 1])) >>

\* pd.rs:331-334: the level of the output after update()
pd_enable(drv, pwr) == IF ready(drv.status) /\ success(drv.status) THEN TRUE ELSE pwr

\* pd.rs:356-361: the reads of one round of write_fut, each unwrapped
pd_telemetry == << RD(29), read_temp, read_voltage, read_current, RD(28), RD(0) >>

PdInit ==
    /\ Constructed
    /\ arg = [op |-> "pd"]
    /\ out = NoCall

\* a timer awaited by main, write_fut or blink_led expires
PdTimerExpire(t) ==
    /\ arg.op = "pd"
    /\ panicked = "no"
    /\ \/ /\ t = "main"
          /\ main_pc \in { "sleep", "sleep100" }
          /\ main_pc' = IF main_pc = "sleep" THEN "boot" ELSE "enable"
          /\ UNCHANGED << mon_pc, blink_pc >>
       \/ /\ t = "monitor"
          /\ mon_pc = "sleep"
          /\ mon_pc' = "ready"
          /\ UNCHANGED << main_pc, blink_pc >>
       \/ /\ t = "blink"
          /\ blink_pc \in { "sleep_high", "sleep_low" }
          /\ blink_pc' = IF blink_pc = "sleep_high" THEN "ready_high" ELSE "ready_low"
          /\ UNCHANGED << main_pc, mon_pc >>
    /\ UNCHANGED << arg, out, panicked, irq, pwr_en, led, pdc, pdc_rc, pwr_en_rc,
                    init, status_res, delay, tx, mon_res, faulted >>

\* pd.rs:256-327: status_boot, the PDO block, the selection and the request
PdBoot ==
    /\ arg.op = "pd"
    /\ main_pc = "boot"
    /\ panicked = "no"
    /\ \E st_ok \in BOOLEAN :
       \E s \in Answers(st_ok, StatusBytes, 0) :
       \E pd_ok \in Answers(st_ok, BOOLEAN, TRUE) :
       \E blk \in Answers(st_ok /\ pd_ok, Blocks, BlockSamples[1]) :
         IF ~st_ok
         THEN /\ panicked' = "unwrap"
              /\ tx' = [tx EXCEPT !["main"] = << RD(29) >>]
              /\ UNCHANGED << main_pc, pdc, status_res >>
         ELSE LET r == pd_read_pdos(pdc, pd_ok, blk)
              IN  /\ status_res' = Ok(s)
                  /\ pdc' = r.drv
                  /\ tx' = [tx EXCEPT !["main"] =
                               << RD(29) >> \o r.tx \o
                               pd_request_profile(r.drv.pdos,
                                                  pd_choose_profile(r.drv.pdos))]
                  /\ main_pc' = "sleep100"
                  /\ UNCHANGED panicked
    /\ UNCHANGED << arg, out, mon_pc, blink_pc, irq, pwr_en, led, pdc_rc, pwr_en_rc,
                    init, delay, mon_res, faulted >>

\* pd.rs:330-334: update(), then the output is set high on ready and success
PdEnable ==
    /\ arg.op = "pd"
    /\ main_pc = "enable"
    /\ panicked = "no"
    /\ \E st_ok \in BOOLEAN :
       \E s \in Answers(st_ok, StatusBytes, 0) :
       \E pd_ok \in Answers(st_ok /\ ready(s) /\ newpdos(s), BOOLEAN, TRUE) :
       \E blk \in Answers(st_ok /\ ready(s) /\ newpdos(s) /\ pd_ok,
                           Blocks, BlockSamples[1]) :
         LET u == pd_update(pdc, st_ok, s, pd_ok, blk)
         IN  /\ pdc' = u.drv
             /\ tx' = [tx EXCEPT !["main"] = u.tx]
             /\ pwr_en' = pd_enable(u.drv, pwr_en)
    /\ main_pc' = "joined"
    /\ UNCHANGED << arg, out, mon_pc, blink_pc, panicked, irq, led, pdc_rc,
                    pwr_en_rc, init, status_res, delay, mon_res, faulted >>

\* pd.rs:353-400: one round of write_fut; fail is the first read that
\* fails, 0 when none does
PdWrite ==
    /\ arg.op = "pd"
    /\ main_pc = "joined"
    /\ mon_pc \in { "start", "ready" }
    /\ panicked = "no"
    /\ \E fail \in 0..6 :
       \E blk \in Answers(fail = 0, Blocks, BlockSamples[1]) :
         IF fail # 0
         THEN /\ panicked' = "unwrap"
              /\ tx' = [tx EXCEPT !["monitor"] = SubSeq(pd_telemetry, 1, fail)]
              /\ mon_res' = "Err"
              /\ UNCHANGED << mon_pc, pdc >>
         ELSE /\ pdc' = pd_read_pdos(pdc, TRUE, blk).drv
              /\ tx' = [tx EXCEPT !["monitor"] = pd_telemetry]
              /\ mon_res' = "Ok"
              /\ mon_pc' = "sleep"
              /\ UNCHANGED panicked
    /\ UNCHANGED << arg, out, main_pc, blink_pc, irq, pwr_en, led, pdc_rc, pwr_en_rc,
                    init, status_res, delay, faulted >>

\* pd.rs:431-433
PdBlinkOn ==
    /\ arg.op = "pd"
    /\ blink_pc \in { "start", "ready_low" }
    /\ panicked = "no"
    /\ led' = TRUE
    /\ blink_pc' = "sleep_high"
    /\ UNCHANGED << arg, out, main_pc, mon_pc, panicked, irq, pwr_en, pdc, pdc_rc,
                    pwr_en_rc, init, status_res, delay, tx, mon_res, faulted >>

\* pd.rs:435-437
PdBlinkOff ==
    /\ arg.op = "pd"
    /\ blink_pc = "ready_high"
    /\ panicked = "no"
    /\ led' = FALSE
    /\ blink_pc' = "sleep_low"
    /\ UNCHANGED << arg, out, main_pc, mon_pc, panicked, irq, pwr_en, pdc, pdc_rc,
                    pwr_en_rc, init, status_res, delay, tx, mon_res, faulted >>

PdNext ==
    \/ \E t \in Timers : PdTimerExpire(t)
    \/ PdBoot
    \/ PdEnable
    \/ PdWrite
    \/ PdBlinkOn
    \/ PdBlinkOff

PdSpec == PdInit /\ [][PdNext]_vars

\* C23: bin/pd.rs asserts the output only on a status with ready and
\* success set and none of ovp, ocp, otp; the output is never asserted on
\* a status with a fault bit.
PdNoAssertOnFault ==
    [][ (PdEnable /\ pwr_en') =>
            /\ ready(pdc'.status)
            /\ success(pdc'.status)
            /\ ~fault(pdc'.status) ]_vars

====
